---- MODULE Spec2Model ----
(***************************************************************************)
(* Model of the BigFrames expression tree (bigframes/core/nodes.py) and of *)
(* the caching executor that runs it (bigframes/session/executor.py).      *)
(*                                                                         *)
(* A node is an immutable record whose "kind" is the dataclass name and    *)
(* whose other fields are the dataclass fields, children included by       *)
(* value.  Dataclass equality (same class, equal field tuples) is record   *)
(* equality.                                                               *)
(*                                                                         *)
(* A schema is a sequence of items [name, dtype, n]: the item stands for   *)
(* the n columns name_1 .. name_n of that dtype (n = 1: the single column  *)
(* name).  Wide tables are what drives planning_complexity to the          *)
(* executor's limit, and a block keeps a 10,000 column table one item.     *)
(***************************************************************************)
EXTENDS Integers, Sequences, FiniteSets, TLC

\* ------------------------------------------------------------------------
\* Program constants
\* ------------------------------------------------------------------------

OVERHEAD_VARIABLES == 5

QUERY_COMPLEXITY_LIMIT == 10000000

MAX_SUBTREE_FACTORINGS == 5

\* ------------------------------------------------------------------------
\* Helpers on sequences and schemas
\* ------------------------------------------------------------------------

Range(s) == {s[i] : i \in 1 .. Len(s)}

RECURSIVE SumSeq(_)
SumSeq(s) == IF s = <<>> THEN 0 ELSE Head(s) + SumSeq(Tail(s))

Item(name, dtype, n) == [name |-> name, dtype |-> dtype, n |-> n]

\* schema.names
Names(schema) == {schema[i].name : i \in 1 .. Len(schema)}

\* schema.dtypes: the column types, by position
DTypes(schema) == [i \in 1 .. Len(schema) |-> <<schema[i].dtype, schema[i].n>>]

\* len(schema.items)
NumItems(schema) == SumSeq([i \in 1 .. Len(schema) |-> schema[i].n])

HasName(schema, name) == name \in Names(schema)

\* schema.get_type(name); "KeyError" when the column is absent
GetType(schema, name) ==
    IF HasName(schema, name)
    THEN (CHOOSE it \in Range(schema) : it.name = name).dtype
    ELSE "KeyError"

GetN(schema, name) == (CHOOSE it \in Range(schema) : it.name = name).n

\* schema.update_dtype(name, dtype)
UpdateDType(schema, name, dtype) ==
    [i \in 1 .. Len(schema) |->
        IF schema[i].name = name THEN [schema[i] EXCEPT !.dtype = dtype] ELSE schema[i]]

\* the element type of an array dtype (pyarrow_dtype.value_type)
ElementType(dtype) == IF dtype = "arr_int" THEN "int" ELSE "TypeError"

\* ------------------------------------------------------------------------
\* Expressions (bigframes.core.expression), as far as the nodes read them
\* ------------------------------------------------------------------------

\* ex.free_var(id)
Var(id) == [op |-> "var", id |-> id]

\* a scalar operator applied to one column that is defined on integers only
IntOp(id) == [op |-> "intop", id |-> id]

\* ex.const(value)
Const(dtype) == [op |-> "const", dtype |-> dtype]

\* expression.unbound_variables
UnboundVariables(e) == IF e.op = "const" THEN {} ELSE {e.id}

\* expression.is_identity
IsIdentity(e) == e.op = "var"

\* expression.output_type(input_types); "Error" when it raises
OutputType(e, schema) ==
    CASE e.op = "const" -> e.dtype
      [] e.op = "var" -> IF HasName(schema, e.id) THEN GetType(schema, e.id) ELSE "Error"
      [] OTHER -> IF HasName(schema, e.id) /\ GetType(schema, e.id) = "int"
                  THEN "int" ELSE "Error"

\* ex.Aggregation.output_type(input_types)
AggOutputType(agg, schema) ==
    IF agg.op = "count" THEN "int" ELSE GetType(schema, agg.arg)

\* agg_ops.UnaryWindowOp.output_type(input_type)
WindowOutputType(op, dtype) == IF op = "rank" THEN "int" ELSE dtype

\* ------------------------------------------------------------------------
\* Node variants
\* ------------------------------------------------------------------------

LeafKinds == {"ReadLocalNode", "ReadTableNode", "CachedTableNode"}

UnaryKinds ==
    {"PromoteOffsetsNode", "FilterNode", "OrderByNode", "ReversedNode",
     "ProjectionNode", "RowCountNode", "AggregateNode", "WindowOpNode",
     "ReprojectOpNode", "RandomSampleNode", "ExplodeNode"}

IsNode(n) == n.kind \in LeafKinds \cup UnaryKinds \cup {"JoinNode", "ConcatNode"}

\* child_nodes
ChildNodes(n) ==
    CASE n.kind \in UnaryKinds -> <<n.child>>
      [] n.kind = "JoinNode" -> <<n.left_child, n.right_child>>
      [] n.kind = "ConcatNode" -> n.children
      [] OTHER -> <<>>

\* row_preserving
RowPreserving(n) ==
    n.kind \notin {"JoinNode", "FilterNode", "RowCountNode", "AggregateNode",
                   "RandomSampleNode", "ExplodeNode"}

\* non_local
NonLocal(n) ==
    n.kind \in {"JoinNode", "PromoteOffsetsNode", "RowCountNode", "AggregateNode",
                "WindowOpNode"}

\* deterministic
Deterministic(n) == n.kind # "RandomSampleNode"

\* f"column_{i}" for enumerate's i = 0, 1, ...
ColumnName == <<"column_0", "column_1", "column_2", "column_3", "column_4">>

\* the schema item a join mapping produces
JoinMappingToSchemaItem(m, left, right) ==
    LET src == IF m.source_table = "LEFT" THEN left ELSE right
    IN  Item(m.destination_id, GetType(src, m.source_id), GetN(src, m.source_id))

\* schema
RECURSIVE Schema(_)
Schema(n) ==
    CASE n.kind = "ReadLocalNode" -> n.data_schema
      [] n.kind = "ReadTableNode" -> n.columns
      [] n.kind = "CachedTableNode" -> Schema(n.original_node)
      [] n.kind = "JoinNode" ->
            LET l == Schema(n.left_child)
                r == Schema(n.right_child)
            IN  [i \in 1 .. Len(n.join) |-> JoinMappingToSchemaItem(n.join[i], l, r)]
      [] n.kind = "ConcatNode" ->
            LET c == Schema(n.children[1])
            IN  [i \in 1 .. Len(c) |-> Item(ColumnName[i], c[i].dtype, c[i].n)]
      [] n.kind = "PromoteOffsetsNode" ->
            <<Item(n.col_id, "int", 1)>> \o Schema(n.child)
      [] n.kind = "ProjectionNode" ->
            LET c == Schema(n.child)
            IN  [i \in 1 .. Len(n.assignments) |->
                    Item(n.assignments[i][2], OutputType(n.assignments[i][1], c),
                         IF n.assignments[i][1].op = "const" THEN 1
                         ELSE GetN(c, n.assignments[i][1].id))]
      [] n.kind = "RowCountNode" -> <<Item("count", "int", 1)>>
      [] n.kind = "AggregateNode" ->
            LET c == Schema(n.child)
            IN  [i \in 1 .. Len(n.by_column_ids) |->
                    Item(n.by_column_ids[i], GetType(c, n.by_column_ids[i]),
                         GetN(c, n.by_column_ids[i]))]
                \o [i \in 1 .. Len(n.aggregations) |->
                    Item(n.aggregations[i][2], AggOutputType(n.aggregations[i][1], c), 1)]
      [] n.kind = "WindowOpNode" ->
            LET c == Schema(n.child)
                t == WindowOutputType(n.op, GetType(c, n.column_name))
            IN  IF n.output_name = "None" THEN UpdateDType(c, n.column_name, t)
                ELSE IF HasName(c, n.output_name) THEN UpdateDType(c, n.output_name, t)
                ELSE c \o <<Item(n.output_name, t, GetN(c, n.column_name))>>
      [] n.kind = "ExplodeNode" ->
            LET c == Schema(n.child)
            IN  [i \in 1 .. Len(c) |->
                    IF c[i].name \in Range(n.column_ids)
                    THEN [c[i] EXCEPT !.dtype = ElementType(c[i].dtype)]
                    ELSE c[i]]
      [] OTHER -> Schema(n.child)


\* variables_introduced
VariablesIntroduced(n) ==
    CASE n.kind = "JoinNode" -> OVERHEAD_VARIABLES
      [] n.kind = "ConcatNode" -> NumItems(Schema(n)) + OVERHEAD_VARIABLES
      [] n.kind = "ReadLocalNode" -> NumItems(Schema(n)) + 1
      [] n.kind = "ReadTableNode" -> NumItems(Schema(n)) + 1
      [] n.kind = "CachedTableNode" -> NumItems(Schema(n)) + OVERHEAD_VARIABLES
      [] n.kind = "PromoteOffsetsNode" -> 1
      [] n.kind = "FilterNode" -> 1
      [] n.kind = "OrderByNode" -> 0
      [] n.kind = "ReversedNode" -> 0
      [] n.kind = "ProjectionNode" ->
            Cardinality({i \in 1 .. Len(n.assignments) : ~IsIdentity(n.assignments[i][1])})
      [] n.kind = "RowCountNode" -> 1
      [] n.kind = "AggregateNode" -> Len(n.aggregations) + Len(n.by_column_ids)
      [] n.kind = "WindowOpNode" -> 1
      [] n.kind = "ReprojectOpNode" -> 0
      [] n.kind = "RandomSampleNode" -> 1
      [] n.kind = "ExplodeNode" -> Len(n.column_ids) + 1

\* relation_ops_created
RelationOpsCreated(n) ==
    CASE n.kind = "ReadTableNode" -> 3
      [] n.kind = "PromoteOffsetsNode" -> 2
      [] n.kind = "OrderByNode" -> 0
      [] n.kind = "ReversedNode" -> 0
      [] n.kind = "WindowOpNode" -> IF n.skip_reproject_unsafe THEN 0 ELSE 4
      [] n.kind = "ReprojectOpNode" -> 0
      [] n.kind = "ExplodeNode" -> 3
      [] OTHER -> 1

\* joins
Joins(n) == n.kind = "JoinNode"

\* total_variables
RECURSIVE TotalVariables(_)
TotalVariables(n) ==
    LET ch == ChildNodes(n)
    IN  VariablesIntroduced(n) + SumSeq([i \in 1 .. Len(ch) |-> TotalVariables(ch[i])])

\* total_relational_ops
RECURSIVE TotalRelationalOps(_)
\* total_relational_ops that counts the node's own operations once per child and
\* leaves out what the children created
TotalRelationalOpsOwnOnly(n) ==
    LET ch == ChildNodes(n)
    IN  IF Len(ch) = 0 THEN RelationOpsCreated(n)
        ELSE RelationOpsCreated(n) * Len(ch)

TotalRelationalOps(n) ==
    LET ch == ChildNodes(n)
    IN  RelationOpsCreated(n) + SumSeq([i \in 1 .. Len(ch) |-> TotalRelationalOps(ch[i])])

\* total_joins
RECURSIVE TotalJoins(_)
TotalJoins(n) ==
    LET ch == ChildNodes(n)
    IN  (IF Joins(n) THEN 1 ELSE 0) + SumSeq([i \in 1 .. Len(ch) |-> TotalJoins(ch[i])])

\* planning_complexity
PlanningComplexity(n) ==
    TotalVariables(n) * TotalRelationalOps(n) * (1 + TotalJoins(n))

\* order_ambiguous
RECURSIVE OrderAmbiguous(_)
\* order_ambiguous with a UnaryNode default that does not read its child
OrderAmbiguousNotInherited(n) ==
    CASE n.kind = "JoinNode" -> TRUE
      [] n.kind = "ConcatNode" ->
            \E i \in 1 .. Len(n.children) : OrderAmbiguous(n.children[i])
      [] n.kind = "ReadLocalNode" -> FALSE
      [] n.kind = "ReadTableNode" -> Len(n.total_order_cols) = 0
      [] n.kind = "CachedTableNode" -> n.ordering.type # "TotalOrdering"
      [] OTHER -> FALSE

\* order_ambiguous with all() for any() in ConcatNode
OrderAmbiguousConcatAll(n) ==
    CASE n.kind = "JoinNode" -> TRUE
      [] n.kind = "ConcatNode" ->
            \A i \in 1 .. Len(n.children) : OrderAmbiguous(n.children[i])
      [] n.kind = "ReadLocalNode" -> FALSE
      [] n.kind = "ReadTableNode" -> Len(n.total_order_cols) = 0
      [] n.kind = "CachedTableNode" -> n.ordering.type # "TotalOrdering"
      [] n.kind = "AggregateNode" -> FALSE
      [] OTHER -> OrderAmbiguous(n.child)

OrderAmbiguous(n) ==
    CASE n.kind = "JoinNode" -> TRUE
      [] n.kind = "ConcatNode" ->
            \E i \in 1 .. Len(n.children) : OrderAmbiguous(n.children[i])
      [] n.kind = "ReadLocalNode" -> FALSE
      [] n.kind = "ReadTableNode" -> Len(n.total_order_cols) = 0
      [] n.kind = "CachedTableNode" -> n.ordering.type # "TotalOrdering"
      [] n.kind = "AggregateNode" -> FALSE
      [] OTHER -> OrderAmbiguous(n.child)

\* session: "None", a session, or "ValueError" when the property raises
RECURSIVE Session(_)
\* session that returns sessions[0] without counting the unique sessions
SessionFirstFound(n) ==
    CASE n.kind = "ReadLocalNode" -> n.session
      [] n.kind = "ReadTableNode" -> n.table_session
      [] n.kind = "CachedTableNode" -> Session(n.original_node)
      [] OTHER ->
            LET ch == ChildNodes(n)
                found == {i \in 1 .. Len(ch) : Session(ch[i]) # "None"}
            IN  IF found = {} THEN "None"
                ELSE Session(ch[CHOOSE i \in found : \A j \in found : i <= j])

Session(n) ==
    CASE n.kind = "ReadLocalNode" -> n.session
      [] n.kind = "ReadTableNode" -> n.table_session
      [] n.kind = "CachedTableNode" -> Session(n.original_node)
      [] OTHER ->
            LET ch == ChildNodes(n)
                all == {Session(ch[i]) : i \in 1 .. Len(ch)}
                sessions == all \ {"None"}
            IN  IF "ValueError" \in all THEN "ValueError"
                ELSE IF Cardinality(sessions) > 1 THEN "ValueError"
                ELSE IF Cardinality(sessions) = 1 THEN CHOOSE s \in sessions : TRUE
                ELSE "None"

\* roots
RECURSIVE Roots(_)
Roots(n) ==
    IF n.kind \in LeafKinds THEN {n}
    ELSE LET ch == ChildNodes(n)
         IN  UNION {Roots(ch[i]) : i \in 1 .. Len(ch)}


\* ------------------------------------------------------------------------
\* Construction: the dataclass constructor followed by __post_init__
\* ------------------------------------------------------------------------

\* CachedTableNode.hidden_columns (the tuple is sorted; only membership is read)
HiddenColumns(n) ==
    IF n.ordering.type = "None" THEN {}
    ELSE {col \in n.ordering.referenced_columns : col \notin Names(Schema(n))}

ConcatPostInit(n) ==
    IF Len(n.children) = 0 THEN "ValueError"
    ELSE IF Cardinality({DTypes(Schema(n.children[i])) : i \in 1 .. Len(n.children)}) # 1
         THEN "ValueError"
    ELSE "ok"

\* __post_init__ of ReadTableNode with "> 1" for "!= 1"
ReadTablePostInitAtMostOne(n) ==
    IF ~(Names(n.columns) \subseteq Names(n.physical_schema)) THEN "ValueError"
    ELSE IF n.order_col_is_sequential /\ Len(n.total_order_cols) > 1 THEN "ValueError"
    ELSE "ok"

ReadTablePostInit(n) ==
    IF ~(Names(n.columns) \subseteq Names(n.physical_schema)) THEN "ValueError"
    ELSE IF n.order_col_is_sequential /\ Len(n.total_order_cols) # 1 THEN "ValueError"
    ELSE "ok"

CachedTablePostInit(n) ==
    IF ~(Names(Schema(n.original_node)) \subseteq Names(n.physical_schema)) THEN "ValueError"
    ELSE IF ~(HiddenColumns(n) \subseteq Names(n.physical_schema)) THEN "ValueError"
    ELSE "ok"

OrderByPostInit(n) ==
    IF \E i \in 1 .. Len(n.by) :
          \E v \in UnboundVariables(n.by[i].scalar_expression) :
             v \notin Names(Schema(n.child))
    THEN "ValueError"
    ELSE "ok"

ProjectionPostInit(n) ==
    IF \E i \in 1 .. Len(n.assignments) :
          OutputType(n.assignments[i][1], Schema(n.child)) = "Error"
    THEN "TypeError"
    ELSE "ok"

\* __post_init__ of the node's class: "ok", or the exception it raises
PostInit(n) ==
    CASE n.kind = "ConcatNode" -> ConcatPostInit(n)
      [] n.kind = "ReadTableNode" -> ReadTablePostInit(n)
      [] n.kind = "CachedTableNode" -> CachedTablePostInit(n)
      [] n.kind = "OrderByNode" -> OrderByPostInit(n)
      [] n.kind = "ProjectionNode" -> ProjectionPostInit(n)
      [] OTHER -> "ok"

\* the exception raised, with the fields of the rejected call (its message shows them)
Raised(error, n) == [kind |-> "Error", error |-> error, node |-> n]

IsError(r) == r.kind = "Error"

\* what the constructor call leaves: the node, or the exception that was raised
Constructed(n, raised) == IF raised = "ok" THEN n ELSE Raised(raised, n)

\* the constructor call: the new node, or the exception of __post_init__
Construct(n) == Constructed(n, PostInit(n))

ReadLocalNode(feather_bytes, data_schema, session) ==
    Construct([kind |-> "ReadLocalNode", feather_bytes |-> feather_bytes,
               data_schema |-> data_schema, session |-> session])

ReadTableNode(table_id, physical_schema, columns, table_session, total_order_cols, order_col_is_sequential) ==
    Construct([kind |-> "ReadTableNode", table_id |-> table_id,
               physical_schema |-> physical_schema, columns |-> columns,
               table_session |-> table_session, total_order_cols |-> total_order_cols,
               order_col_is_sequential |-> order_col_is_sequential])

CachedTableNode(original_node, table_id, physical_schema, ordering) ==
    Construct([kind |-> "CachedTableNode", original_node |-> original_node,
               table_id |-> table_id, physical_schema |-> physical_schema,
               ordering |-> ordering])

JoinNode(left_child, right_child, join) ==
    Construct([kind |-> "JoinNode", left_child |-> left_child,
               right_child |-> right_child, join |-> join])

ConcatNode(children) == Construct([kind |-> "ConcatNode", children |-> children])

PromoteOffsetsNode(child, col_id) ==
    Construct([kind |-> "PromoteOffsetsNode", child |-> child, col_id |-> col_id])

FilterNode(child, predicate) ==
    Construct([kind |-> "FilterNode", child |-> child, predicate |-> predicate])

OrderByNode(child, by) == Construct([kind |-> "OrderByNode", child |-> child, by |-> by])

ReversedNode(child) ==
    Construct([kind |-> "ReversedNode", child |-> child, reversed |-> TRUE])

ProjectionNode(child, assignments) ==
    Construct([kind |-> "ProjectionNode", child |-> child, assignments |-> assignments])

RowCountNode(child) == Construct([kind |-> "RowCountNode", child |-> child])

AggregateNode(child, aggregations, by_column_ids, dropna) ==
    Construct([kind |-> "AggregateNode", child |-> child, aggregations |-> aggregations,
               by_column_ids |-> by_column_ids, dropna |-> dropna])

WindowOpNode(child, column_name, op, output_name, skip_reproject_unsafe) ==
    Construct([kind |-> "WindowOpNode", child |-> child, column_name |-> column_name,
               op |-> op, window_spec |-> "unbound", output_name |-> output_name,
               never_skip_nulls |-> FALSE,
               skip_reproject_unsafe |-> skip_reproject_unsafe])

ReprojectOpNode(child) == Construct([kind |-> "ReprojectOpNode", child |-> child])

RandomSampleNode(child, fraction) ==
    Construct([kind |-> "RandomSampleNode", child |-> child, fraction |-> fraction])

ExplodeNode(child, column_ids) ==
    Construct([kind |-> "ExplodeNode", child |-> child, column_ids |-> column_ids])


\* ------------------------------------------------------------------------
\* Structural hash
\* ------------------------------------------------------------------------

\* A sampling fraction is a power of two, [pow2 |-> k] for 2^-k.  CPython hashes
\* the float 2^e to 2^(e mod 61) (the hash modulus is 2^61 - 1): the hash is kept
\* as that exponent.
FloatHash(fraction) == [exp2 |-> (61 - (fraction.pow2 % 61)) % 61]

\* hash(value) of a field value that is neither a node nor a float: strings,
\* booleans, tuples and expressions stand for their own hash
PyHash(value) == value

\* hash(tuple): the lanes, kept as they are (no collision of the mixing is modelled)
TupleHash(lanes) == [lanes |-> lanes]

\* fields(self), in the order the dataclasses declare them
Fields(kind) ==
    CASE kind = "ReadLocalNode" -> <<"feather_bytes", "data_schema", "session">>
      [] kind = "ReadTableNode" ->
            <<"table_id", "physical_schema", "columns", "table_session",
              "total_order_cols", "order_col_is_sequential">>
      [] kind = "CachedTableNode" ->
            <<"original_node", "table_id", "physical_schema", "ordering">>
      [] kind = "JoinNode" -> <<"left_child", "right_child", "join">>
      [] kind = "ConcatNode" -> <<"children">>
      [] kind = "PromoteOffsetsNode" -> <<"child", "col_id">>
      [] kind = "FilterNode" -> <<"child", "predicate">>
      [] kind = "OrderByNode" -> <<"child", "by">>
      [] kind = "ReversedNode" -> <<"child", "reversed">>
      [] kind = "ProjectionNode" -> <<"child", "assignments">>
      [] kind = "AggregateNode" -> <<"child", "aggregations", "by_column_ids", "dropna">>
      [] kind = "WindowOpNode" ->
            <<"child", "column_name", "op", "window_spec", "output_name",
              "never_skip_nulls", "skip_reproject_unsafe">>
      [] kind = "RandomSampleNode" -> <<"child", "fraction">>
      [] kind = "ExplodeNode" -> <<"child", "column_ids">>
      [] OTHER -> <<"child">>

\* the fields that hold one node
NodeFields == {"child", "left_child", "right_child", "original_node"}

\* hash(getattr(self, field.name)) of a field that holds no node
FieldHash(f, value) == IF f = "fraction" THEN FloatHash(value) ELSE PyHash(value)

\* fields(self) without the last field
HashedFieldsButLast(n) == SubSeq(Fields(n.kind), 1, Len(Fields(n.kind)) - 1)

\* the fields the hash is computed from
HashedFields(n) == Fields(n.kind)

\* _node_hash: hash(tuple(hash(getattr(self, field.name)) for field in fields(self)));
\* the class of the node is no lane.  A child is hashed by its own __hash__
\* (RowCountNode defines none and gets the dataclass one, the hash of its field tuple).
RECURSIVE NodeHash(_)
NodeHash(n) ==
    LET F == HashedFields(n)
        lane(f) ==
            CASE f \in NodeFields -> NodeHash(n[f])
              [] f = "children" ->
                    TupleHash([i \in 1 .. Len(n.children) |-> NodeHash(n.children[i])])
              [] OTHER -> FieldHash(f, n[f])
    IN  TupleHash([i \in 1 .. Len(F) |-> lane(F[i])])

\* ------------------------------------------------------------------------
\* transform_children
\* ------------------------------------------------------------------------

\* The functions handed to transform_children: the identity, the wrapping of every
\* child in a ReversedNode, and the substitution of one node by another.
Identity == [f |-> "identity"]

Wrap == [f |-> "wrap"]

Subst(from, to) == [f |-> "subst", from |-> from, to |-> to]

\* t(child)
\* lambda x: replace_nodes(x, replacements), the function replace_nodes hands down
Replace(replacements) == [f |-> "replace", replacements |-> replacements]

RECURSIVE ReplaceNodes(_, _)

Apply(t, child) ==
    CASE t.f = "identity" -> child
      [] t.f = "wrap" -> ReversedNode(child)
      [] t.f = "replace" -> ReplaceNodes(child, t.replacements)
      [] OTHER -> IF child = t.from THEN t.to ELSE child

UnaryTransformChildren(n, t) == [n EXCEPT !.child = Apply(t, n.child)]

\* JoinNode.transform_children that hands the transformed children over crosswise
JoinTransformChildrenSwapped(n, t) ==
    [n EXCEPT !.left_child = Apply(t, n.right_child),
              !.right_child = Apply(t, n.left_child)]

JoinTransformChildren(n, t) ==
    [n EXCEPT !.left_child = Apply(t, n.left_child),
              !.right_child = Apply(t, n.right_child)]

ConcatTransformChildren(n, t) ==
    [n EXCEPT !.children = [i \in 1 .. Len(n.children) |-> Apply(t, n.children[i])]]

\* transform_children(t): dataclasses.replace calls the constructor, so the class's
\* __post_init__ runs on the new fields; the leaves return self
TransformChildren(n, t) ==
    CASE n.kind \in UnaryKinds -> Construct(UnaryTransformChildren(n, t))
      [] n.kind = "JoinNode" -> Construct(JoinTransformChildren(n, t))
      [] n.kind = "ConcatNode" -> Construct(ConcatTransformChildren(n, t))
      [] OTHER -> n

\* tree_properties.replace_nodes(root, replacements): a subtree that is a key of
\* the mapping is replaced whole, from the root down; below a replaced subtree
\* nothing is rewritten
ReplaceNodes(root, replacements) ==
    IF root \in DOMAIN replacements THEN replacements[root]
    ELSE TransformChildren(root, Replace(replacements))


\* ------------------------------------------------------------------------
\* Building trees: the calls a client of nodes.py makes
\* ------------------------------------------------------------------------

VARIABLES
    pool,       \* the nodes constructed so far
    result,     \* the last call and what it returned or raised
    strictly_ordered,   \* the executor's mode, fixed by its constructor
    forest,     \* the trees the session's objects hold
    cache,      \* _cached_executions: original subtree -> its CachedTableNode
    tables,     \* the temporary tables written so far
    pc,         \* where the executor is: "idle", "simplify" or "compile"
    call,       \* the call in progress
    outcome     \* what the last call of the executor returned or raised

nodeVars == <<pool, result>>

executorVars == <<strictly_ordered, forest, cache, tables, pc, call, outcome>>

vars == <<pool, result, strictly_ordered, forest, cache, tables, pc, call, outcome>>

\* The largest number of nodes held at once
MaxPool == 3

SchemaA == <<Item("a", "int", 1)>>

SchemaArr == <<Item("a", "arr_int", 1)>>

SchemaAB == <<Item("a", "int", 1), Item("b", "str", 1)>>

SchemaC == <<Item("c", "int", 1)>>

TotalOrdering(cols) == [type |-> "TotalOrdering", referenced_columns |-> cols]

RowOrdering(cols) == [type |-> "RowOrdering", referenced_columns |-> cols]

NoOrdering == [type |-> "None", referenced_columns |-> {}]

Ascending(e) == [scalar_expression |-> e, direction |-> "ASC"]

Half == [pow2 |-> 1]

Tiny == [pow2 |-> 62]

\* the columns of the child a call may name where nodes.py does not check the name
ColumnsOf(child) == Names(Schema(child))

Called(r) ==
    /\ Cardinality(pool) < MaxPool
    /\ pool' = IF IsError(r) THEN pool ELSE pool \cup {r}
    /\ result' = [op |-> "construct", out |-> r]
    /\ UNCHANGED executorVars

NewReadLocal ==
    \E local \in {<<SchemaA, "None">>, <<SchemaA, "s2">>, <<SchemaArr, "None">>} :
        Called(ReadLocalNode("feather", local[1], local[2]))

NewReadTable ==
    \E columns \in {SchemaAB, SchemaC},
       total_order_cols \in {<<>>, <<"a">>, <<"a", "b">>}, sequential \in BOOLEAN :
        Called(ReadTableNode("t", SchemaAB, columns, "s1", total_order_cols, sequential))

NewCachedTable ==
    \E original \in pool :
        \E physical \in {<<>>, Schema(original),
                          Schema(original) \o <<Item("off", "int", 1)>>},
           ordering \in {NoOrdering, TotalOrdering({"off"})} :
            Called(CachedTableNode(original, "tmp", physical, ordering))

JoinAll(left, right) ==
    [i \in 1 .. 2 |->
        [source_table |-> IF i = 1 THEN "LEFT" ELSE "RIGHT",
         source_id |-> Schema(IF i = 1 THEN left ELSE right)[1].name,
         destination_id |-> IF i = 1 THEN "a" ELSE "b"]]

NewJoin ==
    \E left \in pool, right \in pool :
        Called(JoinNode(left, right, JoinAll(left, right)))

NewConcat ==
    \E children \in {<<>>} \cup {<<x>> : x \in pool} \cup {<<x, y>> : x \in pool, y \in pool} :
        Called(ConcatNode(children))

NewPromoteOffsets == \E child \in pool : Called(PromoteOffsetsNode(child, "off"))

NewFilter == \E child \in pool : Called(FilterNode(child, IntOp("a")))

NewOrderBy ==
    \E child \in pool, by \in {<<Ascending(Var("a"))>>, <<Ascending(Var("b"))>>} :
        Called(OrderByNode(child, by))

NewReversed == \E child \in pool : Called(ReversedNode(child))

NewProjection ==
    \E child \in pool,
       assignments \in {<<<<Var("a"), "a">>>>, <<<<Var("a"), "a">>, <<IntOp("a"), "c">>>>,
                        <<<<IntOp("b"), "b">>>>} :
        Called(ProjectionNode(child, assignments))

NewRowCount == \E child \in pool : Called(RowCountNode(child))

NewAggregate ==
    \E child \in pool, by \in {<<>>, <<"a">>} :
        /\ "a" \in ColumnsOf(child)
        /\ Called(AggregateNode(child, <<<<[op |-> "count", arg |-> "a"], "n">>>>, by, TRUE))

NewWindowOp ==
    \E child \in pool, window \in {<<"w", FALSE>>, <<"None", TRUE>>} :
        /\ "a" \in ColumnsOf(child)
        /\ Called(WindowOpNode(child, "a", "rank", window[1], window[2]))

NewReprojectOp == \E child \in pool : Called(ReprojectOpNode(child))

NewRandomSample ==
    \E child \in pool, fraction \in {Half, Tiny} : Called(RandomSampleNode(child, fraction))

NewExplode ==
    \E child \in pool :
        \E column_ids \in {<<>>} \cup {<<c>> : c \in {x \in ColumnsOf(child) :
                                                    GetType(Schema(child), x) = "arr_int"}} :
            Called(ExplodeNode(child, column_ids))

\* the functions a caller hands to transform_children of node n
Transforms(n) ==
    {Identity, Wrap}
    \cup {Subst(from, to) : from \in Range(ChildNodes(n)), to \in pool \ {n}}

Transform ==
    \E n \in pool :
        \E t \in Transforms(n) :
            /\ result' = [op |-> "transform_children", node |-> n, t |-> t,
                          out |-> TransformChildren(n, t)]
            /\ UNCHANGED pool
            /\ UNCHANGED executorVars

\* a WeakKeyDictionary without entries
EmptyCache == [k \in {} |-> k]

\* an executor that was constructed and never called
NoCall == [op |-> "none"]

InitNodes ==
    /\ pool = {}
    /\ result = [op |-> "none"]
    /\ strictly_ordered = TRUE
    /\ forest = {}
    /\ cache = EmptyCache
    /\ tables = {}
    /\ pc = "idle"
    /\ call = NoCall
    /\ outcome = NoCall

NextNodes ==
    \/ NewReadLocal
    \/ NewReadTable
    \/ NewCachedTable
    \/ NewJoin
    \/ NewConcat
    \/ NewPromoteOffsets
    \/ NewFilter
    \/ NewOrderBy
    \/ NewReversed
    \/ NewProjection
    \/ NewRowCount
    \/ NewAggregate
    \/ NewWindowOp
    \/ NewReprojectOp
    \/ NewRandomSample
    \/ NewExplode
    \/ Transform

SpecNodes == InitNodes /\ [][NextNodes]_vars


\* ------------------------------------------------------------------------
\* Properties of the node classes (specification SpecNodes)
\* ------------------------------------------------------------------------

\* the nodes of the tree under n, n included (original_node is no child)
RECURSIVE Subtrees(_)
Subtrees(n) ==
    LET ch == ChildNodes(n)
    IN  {n} \cup UNION {Subtrees(ch[i]) : i \in 1 .. Len(ch)}

HasAmbiguousChild(n) ==
    \E i \in 1 .. Len(ChildNodes(n)) : OrderAmbiguous(ChildNodes(n)[i])

\* ReadTable without a total order -> Filter -> Aggregate by a column
IsAmbiguousChain(n) ==
    /\ n.kind = "AggregateNode"
    /\ n.child.kind = "FilterNode"
    /\ n.child.child.kind = "ReadTableNode"
    /\ Len(n.child.child.total_order_cols) = 0

\* C4 as the claim states it: a node with an order-ambiguous child is itself
\* order-ambiguous, whatever its variant.
C4_PropagatesToEveryParent ==
    \A n \in pool : HasAmbiguousChild(n) => OrderAmbiguous(n)

\* C4, amended: order ambiguity of a child propagates to every parent except an
\* AggregateNode, whose order_ambiguous is False whatever its child; in
\* ReadTable(no total order) -> Filter -> Aggregate the ReadTable and the Filter are
\* order-ambiguous and the Aggregate is not.
C4_PropagatesExceptAggregate ==
    \A n \in pool :
        /\ HasAmbiguousChild(n) => (OrderAmbiguous(n) <=> n.kind # "AggregateNode")
        /\ n.kind = "AggregateNode" => ~OrderAmbiguous(n)
        /\ IsAmbiguousChain(n) =>
              /\ OrderAmbiguous(n.child.child)
              /\ OrderAmbiguous(n.child)
              /\ ~OrderAmbiguous(n)

C4_Witness ==
    \E n \in pool : IsAmbiguousChain(n) /\ Len(n.by_column_ids) > 0

\* C5: a JoinNode is always order-ambiguous; a ConcatNode is order-ambiguous iff
\* one of its children is; a ReadTableNode iff it has no total-order columns; a
\* ReadLocalNode never.
C5_BaseRules ==
    \A n \in pool :
        /\ n.kind = "JoinNode" => OrderAmbiguous(n)
        /\ n.kind = "ConcatNode" => (OrderAmbiguous(n) <=> HasAmbiguousChild(n))
        /\ n.kind = "ReadTableNode" => (OrderAmbiguous(n) <=> n.total_order_cols = <<>>)
        /\ n.kind = "ReadLocalNode" => ~OrderAmbiguous(n)

\* a concatenation of an order-ambiguous and an unambiguous child
C5_Witness ==
    \E n \in pool :
        /\ n.kind = "ConcatNode"
        /\ \E i, j \in 1 .. Len(n.children) :
              OrderAmbiguous(n.children[i]) /\ ~OrderAmbiguous(n.children[j])

\* C6: total variables, total relational operations, total joins and planning
\* complexity of a node are never below those of any of its children.
C6_Monotone ==
    \A n \in pool :
        \A i \in 1 .. Len(ChildNodes(n)) :
            LET c == ChildNodes(n)[i]
            IN  /\ TotalVariables(n) >= TotalVariables(c)
                /\ TotalRelationalOps(n) >= TotalRelationalOps(c)
                /\ TotalJoins(n) >= TotalJoins(c)
                /\ PlanningComplexity(n) >= PlanningComplexity(c)

\* a wrapper that adds no relational operation over a child that has some, and a
\* join over two children
C6_Witness ==
    /\ \E n \in pool :
          /\ n.kind \in UnaryKinds
          /\ RelationOpsCreated(n) = 0
          /\ TotalRelationalOps(n.child) > 0
    /\ \E n \in pool : n.kind = "JoinNode"

\* the constructions the node classes must reject, stated on the fields of the call
InvalidConstruction(c) ==
    CASE c.kind = "ConcatNode" ->
            \/ c.children = <<>>
            \/ \E i, j \in 1 .. Len(c.children) :
                  DTypes(Schema(c.children[i])) # DTypes(Schema(c.children[j]))
      [] c.kind = "OrderByNode" ->
            \E i \in 1 .. Len(c.by) :
                ~(UnboundVariables(c.by[i].scalar_expression) \subseteq ColumnsOf(c.child))
      [] c.kind = "ProjectionNode" ->
            \E i \in 1 .. Len(c.assignments) :
                ~(UnboundVariables(c.assignments[i][1]) \subseteq ColumnsOf(c.child))
      [] c.kind = "ReadTableNode" ->
            \/ ~(Names(c.columns) \subseteq Names(c.physical_schema))
            \/ c.order_col_is_sequential /\ Len(c.total_order_cols) # 1
      [] c.kind = "CachedTableNode" ->
            \/ ~(ColumnsOf(c.original_node) \subseteq Names(c.physical_schema))
            \/ /\ c.ordering.type # "None"
               /\ ~((c.ordering.referenced_columns \ ColumnsOf(c.original_node))
                        \subseteq Names(c.physical_schema))
      [] OTHER -> FALSE

\* the fields a constructor call was made with
Candidate(r) == IF IsError(r) THEN r.node ELSE r

\* C7: a Concat with no children or with positionally different column types, an
\* OrderBy or Projection that references a column its child lacks, a ReadTable
\* whose columns are no subset of the physical columns or that is flagged
\* sequential with other than one order column, and a CachedTable whose logical or
\* hidden columns are no subset of the physical schema all fail in the
\* constructor, and no node with such fields exists.
C7_InvalidConstructionFails ==
    /\ result.op \in {"construct", "transform_children"} =>
          (InvalidConstruction(Candidate(result.out)) => IsError(result.out))
    /\ \A n \in pool : \A m \in Subtrees(n) : ~InvalidConstruction(m)

\* a ReadTable flagged sequential without an order column was just rejected
C7_Witness ==
    /\ result.op = "construct"
    /\ IsError(result.out)
    /\ result.out.node.kind = "ReadTableNode"
    /\ result.out.node.order_col_is_sequential
    /\ result.out.node.total_order_cols = <<>>
    /\ Names(result.out.node.columns) \subseteq Names(result.out.node.physical_schema)

\* the sessions that own the leaves under n (through original_node as well)
RECURSIVE OwningSessions(_)
OwningSessions(n) ==
    CASE n.kind = "ReadLocalNode" -> {n.session} \ {"None"}
      [] n.kind = "ReadTableNode" -> {n.table_session}
      [] n.kind = "CachedTableNode" -> OwningSessions(n.original_node)
      [] OTHER -> UNION {OwningSessions(ChildNodes(n)[i]) : i \in 1 .. Len(ChildNodes(n))}

\* C8 as the claim states it: constructing a node over leaves of two sessions
\* fails, so every node that exists has leaves of at most one session.
C8_NoNodeCombinesTwoSessions ==
    \A n \in pool : Cardinality(OwningSessions(n)) <= 1

\* C8, amended: a node over leaves of more than one session is constructed without
\* error; it is reading its session property, or that of any node above it, that
\* raises ValueError.  Where the property returns, it is None when no leaf under
\* the node has a session and the one shared session otherwise.
C8_SessionRaisesWhenRead ==
    \A n \in pool :
        /\ Cardinality(OwningSessions(n)) > 1 <=> Session(n) = "ValueError"
        /\ OwningSessions(n) = {} <=> Session(n) = "None"
        /\ Cardinality(OwningSessions(n)) = 1 => Session(n) \in OwningSessions(n)

\* a join of a local table of session s2 with a table of session s1 exists
C8_Witness ==
    \E n \in pool :
        /\ n.kind = "JoinNode"
        /\ OwningSessions(n) = {"s1", "s2"}
        /\ result = [op |-> "construct", out |-> n]

Quarter == [pow2 |-> 2]

\* other values a field of node n can hold
FieldValues(n, f) ==
    CASE f = "feather_bytes" -> {"feather", "other"}
      [] f = "data_schema" -> {SchemaA, SchemaArr}
      [] f = "session" -> {"None", "s2"}
      [] f = "table_id" -> {"t", "tmp", "u"}
      [] f = "physical_schema" -> {n[f], n[f] \o <<Item("z", "int", 1)>>}
      [] f = "columns" -> {SchemaAB, SchemaC, SchemaA}
      [] f = "table_session" -> {"s1", "s2"}
      [] f = "total_order_cols" -> {<<>>, <<"a">>, <<"a", "b">>}
      [] f = "ordering" -> {NoOrdering, TotalOrdering({"off"}), RowOrdering({"off"})}
      [] f = "join" -> {n[f], [i \in 1 .. Len(n[f]) |->
                                 [n[f][i] EXCEPT !.destination_id = n[f][3 - i].destination_id]]}
      [] f = "col_id" -> {"off", "off2"}
      [] f = "predicate" -> {IntOp("a"), Var("a")}
      [] f = "by" -> {<<>>, <<Ascending(Var("a"))>>, <<Ascending(Var("b"))>>}
      [] f = "assignments" -> {<<<<Var("a"), "a">>>>, <<<<IntOp("a"), "a">>>>}
      [] f = "aggregations" -> {<<<<[op |-> "count", arg |-> "a"], "n">>>>,
                                <<<<[op |-> "sum", arg |-> "a"], "n">>>>}
      [] f = "by_column_ids" -> {<<>>, <<"a">>}
      [] f = "column_name" -> ColumnsOf(n.child)
      [] f = "op" -> {"rank", "sum"}
      [] f = "window_spec" -> {"unbound", "rows"}
      [] f = "output_name" -> {"w", "None"}
      [] f = "fraction" -> {Half, Quarter, Tiny}
      [] f = "column_ids" ->
            {<<>>} \cup {<<c>> : c \in {x \in ColumnsOf(n.child) :
                                         GetType(Schema(n.child), x) = "arr_int"}}
      [] OTHER -> BOOLEAN

\* the constructible trees that differ from n in one field of n itself, each
\* with whether the hashes of the two values of that field are equal
OwnVariants(n) ==
    LET F == Fields(n.kind)
        own == {i \in 1 .. Len(F) : F[i] \notin NodeFields \cup {"children"}}
        all == UNION {{[node |-> [n EXCEPT ![F[i]] = v],
                        collide |-> FieldHash(F[i], v) = FieldHash(F[i], n[F[i]])] :
                            v \in FieldValues(n, F[i]) \ {n[F[i]]}} : i \in own}
    IN  {v \in all : PostInit(v.node) = "ok"}

\* the constructible trees that differ from n in one field of one node under n
RECURSIVE Variants(_)
Variants(n) ==
    LET F == Fields(n.kind)
        sub == {i \in 1 .. Len(F) : F[i] \in NodeFields}
        below == UNION {{[node |-> [n EXCEPT ![F[i]] = v.node], collide |-> v.collide] :
                            v \in Variants(n[F[i]])} : i \in sub}
        among == IF n.kind # "ConcatNode" THEN {}
                 ELSE UNION {{[node |-> [n EXCEPT !.children[i] = v.node],
                               collide |-> v.collide] :
                                  v \in Variants(n.children[i])} :
                                      i \in 1 .. Len(n.children)}
    IN  OwnVariants(n) \cup {v \in below \cup among : PostInit(v.node) = "ok"}

NonChildParams(n) ==
    [f \in {g \in DOMAIN n : g \notin {"child", "left_child", "right_child", "children"}}
        |-> n[f]]

\* C10 as the claim states it: transform_children with any function returns a
\* node of the same variant, with the same non-child parameters, over the
\* function's results in the same order.
C10_AlwaysReturnsNode ==
    result.op = "transform_children" =>
        /\ ~IsError(result.out)
        /\ result.out.kind = result.node.kind
        /\ NonChildParams(result.out) = NonChildParams(result.node)
        /\ ChildNodes(result.out) =
              [i \in 1 .. Len(ChildNodes(result.node)) |->
                  Apply(result.t, ChildNodes(result.node)[i])]

\* C10, amended: transform_children with the identity returns a node equal to the
\* original, and the leaves (ReadLocal, ReadTable, CachedTable) return themselves
\* for any function.  With any function it returns a node of the same variant,
\* with the same non-child parameters, over the function's results in the same
\* order, provided the constructor accepts the new children: a Concat, OrderBy or
\* Projection is validated again over them and transform_children raises that
\* error when they fail.
C10_TransformChildren ==
    result.op = "transform_children" =>
        LET n == result.node
            t == result.t
            out == result.out
            c == Candidate(out)
        IN  /\ t = Identity => out = n
            /\ n.kind \in LeafKinds => out = n
            /\ c.kind = n.kind
            /\ NonChildParams(c) = NonChildParams(n)
            /\ ChildNodes(c) = [i \in 1 .. Len(ChildNodes(n)) |-> Apply(t, ChildNodes(n)[i])]
            /\ IsError(out) =>
                  /\ n.kind \in {"ConcatNode", "OrderByNode", "ProjectionNode"}
                  /\ t # Identity
            /\ InvalidConstruction(c) => IsError(out)

\* a join whose children were exchanged for two different nodes
C10_Witness ==
    /\ result.op = "transform_children"
    /\ result.node.kind = "JoinNode"
    /\ result.t = Wrap
    /\ ~IsError(result.out)
    /\ result.node.left_child # result.node.right_child

\* an OrderBy whose child was replaced by a node without the ordering column
C10_RaisesWitness ==
    /\ result.op = "transform_children"
    /\ result.node.kind = "OrderByNode"
    /\ IsError(result.out)


\* ------------------------------------------------------------------------
\* The caching executor (executor.py)
\* ------------------------------------------------------------------------

\* min_complexity of _cache_most_complex_subtree: QUERY_COMPLEXITY_LIMIT / 500
MinComplexity == QUERY_COMPLEXITY_LIMIT \div 500

\* _get_optimized_plan(node) that hands the tree back as it is (enable_cache=False)
GetOptimizedPlanUncached(node, cached_executions) == node

\* _get_optimized_plan(node): the cache applied to the tree
GetOptimizedPlan(node, cached_executions) == ReplaceNodes(node, cached_executions)

\* the number of times subtree occurs in root
RECURSIVE Occurrences(_, _)
Occurrences(subtree, root) ==
    LET ch == ChildNodes(root)
    IN  (IF root = subtree THEN 1 ELSE 0)
        + SumSeq([i \in 1 .. Len(ch) |-> Occurrences(subtree, ch[i])])

\* the heuristic of _cache_most_complex_subtree, log(complexity) + 2 * log(count),
\* as the number it is the logarithm of: complexity * count^2
Heuristic(complexity, count) == complexity * count * count

\* the subtrees select_cache_target counts: the search goes below a subtree only
\* while its complexity, with the cache applied, is at least min_complexity, and
\* keeps the subtrees that are at most max_complexity
RECURSIVE CacheCandidates(_, _, _, _)
\* one subtree of the search, its complexity with the cache applied being known
Counted(subtree, complexity, min_complexity, max_complexity, cached_executions) ==
    IF complexity < min_complexity THEN {}
    ELSE (IF complexity <= max_complexity
          THEN {[node |-> subtree, complexity |-> complexity]} ELSE {})
         \cup UNION {CacheCandidates(child, min_complexity, max_complexity,
                                     cached_executions) :
                        child \in Range(ChildNodes(subtree))}

CacheCandidates(subtree, min_complexity, max_complexity, cached_executions) ==
    Counted(subtree, PlanningComplexity(ReplaceNodes(subtree, cached_executions)),
            min_complexity, max_complexity, cached_executions)

\* the counted subtrees of the highest score
Best(root, candidates) ==
    {c.node : c \in {x \in candidates :
        \A o \in candidates :
            Heuristic(o.complexity, Occurrences(o.node, root))
                <= Heuristic(x.complexity, Occurrences(x.node, root))}}

\* tree_properties.select_cache_target: the counted subtrees of the highest score;
\* none (the empty set) when no subtree lies in the range
SelectCacheTarget(root, min_complexity, max_complexity, cached_executions) ==
    Best(root, CacheCandidates(root, min_complexity, max_complexity, cached_executions))

\* the names the storage manager gives the tables written for one subtree
TempTableIds == <<"tmp1", "tmp2", "tmp3", "tmp4", "tmp5", "tmp6">>

\* the tables written so far for a subtree
TablesOf(node) == {t \in tables : t.of = node}

\* storage_manager.create_temp_table and the query job that fills it
NewTempTable(node, schema, cluster_cols) ==
    [of |-> node, table_id |-> TempTableIds[Cardinality(TablesOf(node)) + 1],
     schema |-> schema, cluster_cols |-> cluster_cols]

\* as_cached called on the plan the cache mapping gives for the tree
AsCachedOfOptimized(node, cache_table, ordering) ==
    CachedTableNode(GetOptimizedPlan(node, cache), cache_table.table_id,
                    cache_table.schema, ordering)

\* ArrayValue.as_cached(cache_table, ordering).node
AsCached(node, cache_table, ordering) ==
    CachedTableNode(node, cache_table.table_id, cache_table.schema, ordering)

\* compiler.compile_raw(plan): the statement stands for the plan it was compiled
\* from; a table written by the cluster-column strategy has no guaranteed row order
CompileRaw(plan) == [sql |-> plan, schema |-> Schema(plan), ordering |-> RowOrdering({})]

\* a registration that drops the entries made before
RegisterAlone(cached_executions, node, cached_replacement) ==
    [k \in {node} |-> cached_replacement]

\* the entry self._cached_executions[node] = cached_replacement
Register(cached_executions, node, cached_replacement) ==
    [k \in DOMAIN cached_executions \cup {node} |->
        IF k = node THEN cached_replacement ELSE cached_executions[k]]

\* every node a tree holds a strong reference to (original_node included)
RECURSIVE Referents(_)
Referents(n) ==
    {n} \cup (IF n.kind = "CachedTableNode" THEN Referents(n.original_node)
              ELSE UNION {Referents(child) : child \in Range(ChildNodes(n))})

\* What the WeakKeyDictionary keeps once only the trees in live are held outside
\* it: an entry goes when nothing holds its key strongly.  The dictionary holds
\* its values strongly, and a value holds its original_node.  (A node is one
\* object here: equal subtrees of the session's trees are the same object.)
Purge(cached_executions, live) ==
    [k \in {key \in DOMAIN cached_executions :
                \E holder \in live \cup {cached_executions[e] : e \in DOMAIN cached_executions} :
                    key \in Referents(holder)} |-> cached_executions[k]]

\* Columns of the wide tables the plans below read
Width == 200000

\* Columns of the narrow tables
NarrowWidth == 700

\* The largest number of trees the session holds at once
MaxLive == 2

\* The largest number of tables there are when a tree is cached on request
MaxTables == 2

TableIds == <<"t1", "t2", "t3", "t4", "t5", "t6">>

\* tables 1 and 2 are equally wide, the others narrower one by one
WideSchema(i) ==
    <<Item("a", "int", 1), Item("w", "int", Width + (IF i <= 2 THEN 10 ELSE 10 - i))>>

\* a table read with all of its columns
ReadAll(table_id, schema) == ReadTableNode(table_id, schema, schema, "s1", <<"a">>, FALSE)

Wide(i) == ReadAll(TableIds[i], WideSchema(i))

\* a table joined with itself
SelfJoin(node) == JoinNode(node, node, JoinAll(node, node))

Pair(i) == SelfJoin(Wide(i))

Union(k) == ConcatNode([i \in 1 .. k |-> Pair(i)])

NarrowSchema == <<Item("a", "int", 1), Item("w", "int", NarrowWidth)>>

Narrow == ReadAll("n", NarrowSchema)

NarrowPair == SelfJoin(Narrow)

\* over the ceiling, with every subtree below the least complexity worth a table
Crowd == ConcatNode([i \in 1 .. 10 |-> NarrowPair])

\* the trees the session's objects can hold: a join under the ceiling, two unions
\* over it that hold that join, and the crowd
Plans == {Pair(1), Union(2), Union(6), Crowd}

\* Rows of the local data
LocalRows == 3

\* Columns of the wide local data
LocalWidth == 2000000

\* The largest number of tables there are when head is called
MaxHeadTables == 3

\* the numbers of rows head is asked for: fewer than the local data has, and more
HeadRows == {LocalRows - 1, LocalRows + 2}

\* the answers of the engine to a counting query
EngineCounts == {0, 7}

Local == ReadLocalNode([rows |-> LocalRows], SchemaA, "s1")

\* local data of a known row count in a plan over the ceiling whose inner node
\* lies in the range of the subtrees worth a table
WideLocal ==
    PromoteOffsetsNode(
        PromoteOffsetsNode(
            ReadLocalNode([rows |-> LocalRows],
                          <<Item("k", "int", 1), Item("w", "int", LocalWidth)>>, "s1"),
            "o1"),
        "o2")

SchemaKV == <<Item("k", "int", 1), Item("v", "int", 1)>>

\* ReadTable (no order columns) -> Filter -> Aggregate by column "k"
Scenario ==
    AggregateNode(
        FilterNode(ReadTableNode("t", SchemaKV, SchemaKV, "s1", <<>>, FALSE), IntOp("v")),
        <<<<[op |-> "count", arg |-> "v"], "n">>>>, <<"k">>, TRUE)

\* the trees the objects of the session hold when head and get_row_count are called
Frames == {Local, WideLocal, Scenario}

\* the trees the session is asked to cache as a whole
Cacheable == {Pair(1), Union(2)} \cup Frames

\* what the engine answers a query job with: rows, a BadRequest whose message
\* holds "Resources exceeded during query execution", or another failure
Responses == {"ok", "Resources exceeded", "BadRequest"}

\* _run_execute_query with every failure handed on as it is
RunExecuteQueryUntranslated(response) == response

\* _run_execute_query(sql): the rows, or what it raises for the engine's answer
RunExecuteQuery(response) ==
    IF response = "Resources exceeded" THEN "QueryComplexityError" ELSE response

\* what _run_execute_query does: returns, or raises
JobStatuses == {RunExecuteQuery(response) : response \in Responses}

\* what _sql_as_cached_temp_table does: returns the table, or raises what
\* create_temp_table or _run_execute_query raised
CachingStatuses == JobStatuses \cup {"create_temp_table failed"}

\* the name promote_offsets gives the offsets column
OffsetColumn == "bigframes_offsets"

\* no statement was compiled
NoPlan == [kind |-> "None"]

\* what a call returned or raised, and the plan its statement was compiled from
Returned(op, node, plan, status, materializations) ==
    [op |-> op, node |-> node, plan |-> plan, status |-> status,
     materializations |-> materializations]

\* an object of the session is built over a new tree
NewPlan ==
    /\ pc = "idle"
    /\ Cardinality(forest) < MaxLive
    /\ \E plan \in Plans \ forest : forest' = forest \cup {plan}
    /\ outcome' = NoCall
    /\ UNCHANGED <<strictly_ordered, cache, tables, pc, call>>
    /\ UNCHANGED nodeVars

\* the last object over a tree is dropped; the weak dictionary then loses the
\* entries whose keys nothing holds any more
ReleasePlan ==
    /\ pc = "idle"
    /\ \E plan \in forest :
          /\ forest' = forest \ {plan}
          /\ cache' = Purge(cache, forest')
    /\ outcome' = NoCall
    /\ UNCHANGED <<strictly_ordered, tables, pc, call>>
    /\ UNCHANGED nodeVars

\* the table is written and the replacement registered
CacheAs(node, tmp_table, ordering) ==
    /\ tables' = tables \cup {tmp_table}
    /\ cache' = Register(cache, node, AsCached(node, tmp_table, ordering))

\* _sql_as_cached_temp_table for the compiled statement, and the registration
CacheCompiled(node, raw) ==
    CacheAs(node, NewTempTable(node, raw.schema, <<>>), raw.ordering)

\* _cache_with_cluster_cols(array_value, []) once its job has succeeded
CacheWithClusterCols(node) ==
    CacheCompiled(node, CompileRaw(GetOptimizedPlan(node, cache)))

\* _cache_with_offsets that registers the table without its ordering
CacheWithOffsetsUnordered(node) ==
    CacheAs(node,
            NewTempTable(node, Schema(PromoteOffsetsNode(node, OffsetColumn)),
                         <<OffsetColumn>>),
            RowOrdering({}))

\* _cache_with_offsets(array_value) once its job has succeeded
CacheWithOffsets(node) ==
    CacheAs(node,
            NewTempTable(node, Schema(PromoteOffsetsNode(node, OffsetColumn)),
                         <<OffsetColumn>>),
            TotalOrdering({OffsetColumn}))

\* execute(array_value) up to the call of _simplify_with_caching
Execute ==
    /\ pc = "idle"
    /\ \E node \in forest, enable_multi_query_execution \in BOOLEAN,
          use_explicit_destination \in BOOLEAN :
          /\ call' = [op |-> "execute", node |-> node, iteration |-> 0,
                      materializations |-> 0,
                      enable_multi_query_execution |-> enable_multi_query_execution,
                      use_explicit_destination |-> use_explicit_destination]
          /\ pc' = IF enable_multi_query_execution THEN "simplify" ELSE "compile"
    /\ outcome' = NoCall
    /\ UNCHANGED <<strictly_ordered, forest, cache, tables>>
    /\ UNCHANGED nodeVars

\* for _ in range(MAX_SUBTREE_FACTORINGS), with one turn too many
BudgetLeftOffByOne(iteration) == iteration <= MAX_SUBTREE_FACTORINGS

\* for _ in range(MAX_SUBTREE_FACTORINGS)
BudgetLeft(iteration) == iteration < MAX_SUBTREE_FACTORINGS

\* _simplify_with_caching returns and execute goes on to to_sql
SimplifyReturns ==
    /\ pc' = "compile"
    /\ UNCHANGED <<cache, tables, call, outcome>>

\* _cache_most_complex_subtree(node) for what select_cache_target returned: no
\* subtree, or a subtree that is written to a table and registered, unless the
\* job fails and execute raises
CacheMostComplexSubtree(selection) ==
    IF selection = {} THEN SimplifyReturns
    ELSE \E target \in selection, status \in CachingStatuses :
            IF status = "ok"
            THEN /\ CacheWithClusterCols(target)
                 /\ call' = [call EXCEPT !.iteration = @ + 1,
                                         !.materializations = @ + 1]
                 /\ UNCHANGED <<pc, outcome>>
            ELSE /\ outcome' = Returned(call.op, call.node, NoPlan, status,
                                        call.materializations)
                 /\ pc' = "idle"
                 /\ call' = NoCall
                 /\ UNCHANGED <<cache, tables>>

\* one turn of the loop of _simplify_with_caching
SimplifyStep ==
    /\ pc = "simplify"
    /\ IF \/ ~BudgetLeft(call.iteration)
          \/ PlanningComplexity(GetOptimizedPlan(call.node, cache)) < QUERY_COMPLEXITY_LIMIT
       THEN SimplifyReturns
       ELSE CacheMostComplexSubtree(
                SelectCacheTarget(call.node, MinComplexity, QUERY_COMPLEXITY_LIMIT, cache))
    /\ UNCHANGED <<strictly_ordered, forest>>
    /\ UNCHANGED nodeVars

\* execute that compiles its statement from the tree as it was handed in
\* (to_sql with enable_cache=False)
FinalStatementUncached(node, cached_executions) == node

\* to_sql(array_value, ordered): the plan the one statement of execute is
\* compiled from
FinalStatement(node, cached_executions) == GetOptimizedPlan(node, cached_executions)

\* what the rest of execute does once the statement is compiled: with
\* use_explicit_destination the destination table is created first, and the
\* query is submitted unless that raised
FinalStatuses(use_explicit_destination) ==
    IF use_explicit_destination THEN CachingStatuses ELSE JobStatuses

\* to_sql(array_value, ordered), the destination and _run_execute_query(sql)
Compile ==
    /\ pc = "compile"
    /\ \E status \in FinalStatuses(call.use_explicit_destination) :
          outcome' = Returned(call.op, call.node, FinalStatement(call.node, cache),
                              status, call.materializations)
    /\ pc' = "idle"
    /\ call' = NoCall
    /\ UNCHANGED <<strictly_ordered, forest, cache, tables>>
    /\ UNCHANGED nodeVars

\* _cache_with_cluster_cols(array_value, []) called for a tree of the session
CacheTree ==
    /\ pc = "idle"
    /\ \E node \in forest \cap Cacheable, status \in CachingStatuses :
          /\ Cardinality(tables) < MaxTables
          /\ IF status = "ok" THEN CacheWithClusterCols(node)
             ELSE UNCHANGED <<cache, tables>>
          /\ outcome' = Returned("_cache_with_cluster_cols", node, NoPlan, status,
                                 IF status = "ok" THEN 1 ELSE 0)
    /\ UNCHANGED <<strictly_ordered, forest, pc, call>>
    /\ UNCHANGED nodeVars

\* _cache_with_offsets(array_value) called for a tree of the session, as head does
CacheTreeWithOffsets ==
    /\ pc = "idle"
    /\ \E node \in forest \cap Cacheable, status \in CachingStatuses :
          /\ Cardinality(tables) < MaxTables
          /\ IF ~strictly_ordered
             THEN /\ outcome' = Returned("_cache_with_offsets", node, NoPlan,
                                         "ValueError", 0)
                  /\ UNCHANGED <<cache, tables>>
             ELSE /\ IF status = "ok" THEN CacheWithOffsets(node)
                     ELSE UNCHANGED <<cache, tables>>
                  /\ outcome' = Returned("_cache_with_offsets", node, NoPlan, status,
                                         IF status = "ok" THEN 1 ELSE 0)
    /\ UNCHANGED <<strictly_ordered, forest, pc, call>>
    /\ UNCHANGED nodeVars

Init ==
    /\ pool = {}
    /\ result = [op |-> "none"]
    /\ strictly_ordered \in BOOLEAN
    /\ forest = {}
    /\ cache = EmptyCache
    /\ tables = {}
    /\ pc = "idle"
    /\ call = NoCall
    /\ outcome = NoCall

Next ==
    \/ NewPlan
    \/ ReleasePlan
    \/ Execute
    \/ SimplifyStep
    \/ Compile
    \/ CacheTree
    \/ CacheTreeWithOffsets

Spec == Init /\ [][Next]_vars

\* ------------------------------------------------------------------------
\* Properties of the executor (specification Spec)
\* ------------------------------------------------------------------------

\* C1: one call of _simplify_with_caching ends after at most
\* MAX_SUBTREE_FACTORINGS materializations, whatever the tree and the cache it
\* starts from: every turn of the loop either ends the loop or writes exactly one
\* table and uses up one of the MAX_SUBTREE_FACTORINGS turns, the turn after the
\* last one goes on to compile the plan even if it is still at or above
\* QUERY_COMPLEXITY_LIMIT.  (The turns of a call are counted by call.iteration,
\* which every turn that stays in the loop raises and which never exceeds
\* MAX_SUBTREE_FACTORINGS: a call takes at most MAX_SUBTREE_FACTORINGS + 1 steps.)
C1_BoundedFactoring ==
    /\ [](call.op = "execute" =>
            /\ call.iteration <= MAX_SUBTREE_FACTORINGS
            /\ call.materializations <= MAX_SUBTREE_FACTORINGS)
    /\ [](outcome.op = "execute" =>
            outcome.materializations <= MAX_SUBTREE_FACTORINGS)
    /\ [][pc = "simplify" =>
            \/ pc' # "simplify"
            \/ /\ call'.iteration = call.iteration + 1
               /\ call'.materializations = call.materializations + 1
               /\ Cardinality(tables') = Cardinality(tables) + 1]_vars
    /\ [][pc = "simplify" /\ call.iteration >= MAX_SUBTREE_FACTORINGS =>
            pc' = "compile" /\ tables' = tables /\ cache' = cache]_vars

\* the loop has used all its turns and the plan is still at or above the ceiling
C1_Witness ==
    /\ pc = "compile"
    /\ call.materializations = MAX_SUBTREE_FACTORINGS
    /\ PlanningComplexity(ReplaceNodes(call.node, cache)) >= QUERY_COMPLEXITY_LIMIT

\* the tree a plan was made from: every CachedTableNode gives way to its original
RECURSIVE Originals(_)
Originals(p) ==
    CASE p.kind = "CachedTableNode" -> p.original_node
      [] p.kind \in UnaryKinds -> [p EXCEPT !.child = Originals(p.child)]
      [] p.kind = "JoinNode" ->
            [p EXCEPT !.left_child = Originals(p.left_child),
                      !.right_child = Originals(p.right_child)]
      [] p.kind = "ConcatNode" ->
            [p EXCEPT !.children =
                [i \in 1 .. Len(p.children) |-> Originals(p.children[i])]]
      [] OTHER -> p

\* C2 as the claim states it: a subtree that was materialized and registered is
\* not materialized a second time.
C2_MaterializedOnce ==
    \A t1 \in tables, t2 \in tables : t1.of = t2.of => t1 = t2

\* C2, amended: the plan execute compiles its statement from is the tree with the
\* CachedTableNode now registered in place of every registered subtree that lies
\* in no larger registered subtree, and with nothing else changed; it depends on
\* the tree and the cache only.  Factoring writes a second table for a registered
\* subtree only if its replacement alone has a complexity of at least
\* QUERY_COMPLEXITY_LIMIT / 500.  (A caching call for the subtree itself writes a
\* new table and registers a new node.)
C2_SubstitutedPlan ==
    /\ [](outcome.op = "execute" /\ outcome.plan # NoPlan =>
            /\ Originals(outcome.plan) = outcome.node
            /\ Subtrees(outcome.plan) \cap DOMAIN cache = {}
            /\ \A c \in Subtrees(outcome.plan) :
                  c.kind = "CachedTableNode" =>
                      /\ c.original_node \in DOMAIN cache
                      /\ cache[c.original_node] = c)
    /\ [][pc = "simplify" =>
            \A t \in tables' \ tables :
                \/ t.of \notin DOMAIN cache
                \/ PlanningComplexity(cache[t.of]) >= MinComplexity]_vars

\* a tree was executed whose subtree had been registered before the call: the
\* statement was compiled from the plan that holds the registered node
C2_Witness ==
    /\ outcome.op = "execute"
    /\ outcome.status = "ok"
    /\ outcome.materializations = 0
    /\ \E c \in Subtrees(outcome.plan) :
          /\ c.kind = "CachedTableNode"
          /\ c # outcome.plan
          /\ c.original_node \in Subtrees(outcome.node)
          /\ Cardinality(TablesOf(c.original_node)) = 1

\* C3 as the claim states it: an entry whose original subtree no live tree of the
\* session holds is dropped from _cached_executions.
C3_EntryGoesWithItsTree ==
    \A k \in DOMAIN cache : \E tree \in forest : k \in Subtrees(tree)


\* ------------------------------------------------------------------------
\* head, peek, get_row_count and session-aware caching (executor.py)
\* ------------------------------------------------------------------------

\* None, where a row count is expected
Unknown == -1

\* tree_properties.row_count(plan): the rows of the local data a leaf holds, seen
\* through the unary nodes that keep every row; the table leaves of nodes.py hold
\* no row count
RECURSIVE RowCount(_)
RowCount(plan) ==
    CASE plan.kind = "ReadLocalNode" -> plan.feather_bytes.rows
      [] plan.kind \in UnaryKinds /\ RowPreserving(plan) -> RowCount(plan.child)
      [] OTHER -> Unknown

\* tree_properties.can_fast_head(plan): a materialized leaf with a total ordering
\* on its clustered offsets column, seen through the unary nodes that keep every row
RECURSIVE CanFastHead(_)
CanFastHead(plan) ==
    CASE plan.kind = "CachedTableNode" -> plan.ordering = TotalOrdering({OffsetColumn})
      [] plan.kind \in UnaryKinds /\ RowPreserving(plan) -> CanFastHead(plan.child)
      [] OTHER -> FALSE

\* tree_properties.can_fast_peek(plan): no node of the plan needs all the rows
RECURSIVE CanFastPeek(_)
CanFastPeek(plan) ==
    /\ ~NonLocal(plan)
    /\ \A child \in Range(ChildNodes(plan)) : CanFastPeek(child)

\* the name generate_head_plan gives its offsets column
HeadOffsets == "offsets_"

\* generate_head_plan(node, n): the offsets are promoted and the filter is built;
\* nodes.SelectionNode is then looked up, and nodes.py has no such class
GenerateHeadPlan(node, n) ==
    Raised("AttributeError",
           FilterNode(PromoteOffsetsNode(node, HeadOffsets), IntOp(HeadOffsets)))

\* generate_row_count_plan(node)
GenerateRowCountPlan(node) == RowCountNode(node)

\* an object of the session is built over a new tree
NewFrame ==
    /\ pc = "idle"
    /\ Cardinality(forest) < MaxLive
    /\ \E plan \in Frames \ forest : forest' = forest \cup {plan}
    /\ outcome' = NoCall
    /\ UNCHANGED <<strictly_ordered, cache, tables, pc, call>>
    /\ UNCHANGED nodeVars

\* what head returned or raised where it did not hand over to execute
HeadReturned(node, n_rows, plan, status, materializations) ==
    [op |-> "head", node |-> node, plan |-> plan, status |-> status,
     materializations |-> materializations, n_rows |-> n_rows]

\* what head returns or raises once generate_head_plan was called: the exception
\* of generate_head_plan, or what the query compiled from the head plan gave
HeadCompiled(node, n_rows, head_plan, status, materializations) ==
    outcome' = IF IsError(head_plan)
               THEN HeadReturned(node, n_rows, NoPlan, head_plan.error, materializations)
               ELSE HeadReturned(node, n_rows, head_plan, status, materializations)

\* the second half of head with the assertion made on the plan of the cache
\* mapping as it was before _cache_with_offsets
HeadAfterCachingStale(node, plan, n_rows, status) ==
    outcome' = IF CanFastHead(GetOptimizedPlan(node, cache))
               THEN HeadReturned(node, n_rows, NoPlan, "AttributeError", 1)
               ELSE HeadReturned(node, n_rows, NoPlan, "AssertionError", 1)

\* the second half of head for the plan the cache mapping gives now, after
\* _cache_with_offsets: the assertion, generate_head_plan, compile_ordered and the query
HeadAfterCaching(node, plan, n_rows, status) ==
    IF CanFastHead(plan)
    THEN HeadCompiled(node, n_rows, GenerateHeadPlan(plan, n_rows), status, 1)
    ELSE outcome' = HeadReturned(node, n_rows, NoPlan, "AssertionError", 1)

\* head that goes on to the offsets whatever row count is known
HeadPlannedWithoutShortcut(node, n_rows, plan, enable_multi_query_execution, status, caching) ==
    /\ CacheWithOffsets(node)
    /\ outcome' = HeadReturned(node, n_rows, NoPlan, "AttributeError", 1)
    /\ UNCHANGED <<pc, call>>

\* head(array_value, n_rows) for the plan _get_optimized_plan gave
HeadPlanned(node, n_rows, plan, enable_multi_query_execution, status, caching) ==
    IF RowCount(plan) # Unknown /\ RowCount(plan) <= n_rows
    THEN \* return self.execute(array_value, ordered=True)
         /\ call' = [op |-> "head", node |-> node, iteration |-> 0,
                     materializations |-> 0, n_rows |-> n_rows,
                     enable_multi_query_execution |-> enable_multi_query_execution,
                     use_explicit_destination |-> FALSE]
         /\ pc' = IF enable_multi_query_execution THEN "simplify" ELSE "compile"
         /\ outcome' = NoCall
         /\ UNCHANGED <<cache, tables>>
    ELSE IF ~strictly_ordered
    THEN \* array_value.node.explicitly_ordered: no class of nodes.py has the attribute
         /\ outcome' = HeadReturned(node, n_rows, NoPlan, "AttributeError", 0)
         /\ UNCHANGED <<cache, tables, pc, call>>
    ELSE IF CanFastHead(plan)
    THEN /\ HeadCompiled(node, n_rows, GenerateHeadPlan(plan, n_rows), status, 0)
         /\ UNCHANGED <<cache, tables, pc, call>>
    ELSE IF caching = "ok"
    THEN /\ CacheWithOffsets(node)
         /\ HeadAfterCaching(node, GetOptimizedPlan(node, cache'), n_rows, status)
         /\ UNCHANGED <<pc, call>>
    ELSE \* the job of _cache_with_offsets failed
         /\ outcome' = HeadReturned(node, n_rows, NoPlan, caching, 0)
         /\ UNCHANGED <<cache, tables, pc, call>>

\* head(array_value, n_rows); Head is the operator of Sequences
HeadCall ==
    /\ pc = "idle"
    /\ Cardinality(tables) < MaxHeadTables
    /\ \E node \in forest, n_rows \in HeadRows, enable_multi_query_execution \in BOOLEAN,
          status \in JobStatuses, caching \in CachingStatuses :
          HeadPlanned(node, n_rows, GetOptimizedPlan(node, cache),
                      enable_multi_query_execution, status, caching)
    /\ UNCHANGED <<strictly_ordered, forest>>
    /\ UNCHANGED nodeVars

\* what peek returns or raises, and whether it warned
Peeked(node, plan, status) ==
    [op |-> "peek", node |-> node, plan |-> plan, status |-> status,
     materializations |-> 0, warned |-> ~CanFastPeek(plan)]

\* peek that, as head does, first writes the tree to a table when the plan cannot
\* be peeked fast
PeekForcingCache ==
    /\ pc = "idle"
    /\ \E node \in forest, status \in JobStatuses :
          /\ IF CanFastPeek(GetOptimizedPlan(node, cache))
             THEN UNCHANGED <<cache, tables>>
             ELSE CacheWithClusterCols(node)
          /\ outcome' = Peeked(node, node, status)
    /\ UNCHANGED <<strictly_ordered, forest, pc, call>>
    /\ UNCHANGED nodeVars

\* peek(array_value, n_rows)
Peek ==
    /\ pc = "idle"
    /\ \E node \in forest, status \in JobStatuses :
          outcome' = Peeked(node, GetOptimizedPlan(node, cache), status)
    /\ UNCHANGED <<strictly_ordered, forest, cache, tables, pc, call>>
    /\ UNCHANGED nodeVars

\* get_row_count that asks the engine whatever _local_get_row_count found
RowCountedAlwaysQuery(node, count, row_count_plan, status, rows) ==
    [op |-> "get_row_count", node |-> node, plan |-> row_count_plan,
     status |-> status, materializations |-> 0, queries |-> 1,
     value |-> IF status = "ok" THEN rows ELSE Unknown]

\* what get_row_count returns or raises: the count _local_get_row_count found, or
\* the value of the one query compiled from row_count_plan
RowCounted(node, count, row_count_plan, status, rows) ==
    IF count # Unknown
    THEN [op |-> "get_row_count", node |-> node, plan |-> NoPlan, status |-> "ok",
          materializations |-> 0, queries |-> 0, value |-> count]
    ELSE [op |-> "get_row_count", node |-> node, plan |-> row_count_plan,
          status |-> status, materializations |-> 0, queries |-> 1,
          value |-> IF status = "ok" THEN rows ELSE Unknown]

\* get_row_count(array_value)
GetRowCount ==
    /\ pc = "idle"
    /\ \E node \in forest, status \in JobStatuses, rows \in EngineCounts :
          outcome' = RowCounted(node, RowCount(GetOptimizedPlan(node, cache)),
                                GetOptimizedPlan(GenerateRowCountPlan(node), cache),
                                status, rows)
    /\ UNCHANGED <<strictly_ordered, forest, cache, tables, pc, call>>
    /\ UNCHANGED nodeVars

\* the column names session_aware_cache_plan may hand back for a target
ClusterCols(target) == {<<>>, <<Schema(target)[1].name>>}

\* _cache_with_cluster_cols(array_value, cluster_cols) once its job has succeeded
CacheClustered(node, raw, cluster_cols) ==
    CacheAs(node, NewTempTable(node, raw.schema, cluster_cols), raw.ordering)

\* what a caching call returned or raised, and the strategy it went by
Cached(op, node, strategy, status) ==
    [op |-> op, node |-> node, plan |-> NoPlan, status |-> status,
     materializations |-> IF status = "ok" THEN 1 ELSE 0, strategy |-> strategy]

\* _cache_with_session_awareness that takes the offsets whenever no cluster
\* columns came back
CacheTargetByOffsets(target, cluster_cols, status) ==
    /\ IF status = "ok" THEN CacheWithOffsets(target) ELSE UNCHANGED <<cache, tables>>
    /\ outcome' = Cached("_cache_with_session_awareness", target,
                         "_cache_with_offsets", status)

\* the branches of _cache_with_session_awareness for the target and the cluster
\* columns session_aware_cache_plan returned
CacheTarget(target, cluster_cols, status) ==
    IF Len(cluster_cols) > 0 \/ ~strictly_ordered
    THEN /\ IF status = "ok"
            THEN CacheClustered(target, CompileRaw(GetOptimizedPlan(target, cache)),
                                cluster_cols)
            ELSE UNCHANGED <<cache, tables>>
         /\ outcome' = Cached("_cache_with_session_awareness", target,
                              "_cache_with_cluster_cols", status)
    ELSE /\ IF status = "ok" THEN CacheWithOffsets(target)
            ELSE UNCHANGED <<cache, tables>>
         /\ outcome' = Cached("_cache_with_session_awareness", target,
                              "_cache_with_offsets", status)

\* _cache_with_session_awareness(array_value)
CacheWithSessionAwareness ==
    /\ pc = "idle"
    /\ Cardinality(tables) < MaxTables
    /\ \E node \in forest :
          \E target \in Subtrees(node), status \in CachingStatuses :
              \E cluster_cols \in ClusterCols(target) :
                  CacheTarget(target, cluster_cols, status)
    /\ UNCHANGED <<strictly_ordered, forest, pc, call>>
    /\ UNCHANGED nodeVars

NextHead ==
    \/ NewFrame
    \/ ReleasePlan
    \/ HeadCall
    \/ Peek
    \/ GetRowCount
    \/ SimplifyStep
    \/ Compile
    \/ CacheWithSessionAwareness
    \/ CacheTreeWithOffsets

SpecHead == Init /\ [][NextHead]_vars


\* ------------------------------------------------------------------------
\* Properties of head, peek and get_row_count (specification SpecHead)
\* ------------------------------------------------------------------------

\* head handed over to execute and execute has not returned yet
HeadExecutes == call.op = "head"

\* C11 as the claim states it: while head runs for a plan whose known row count
\* is at most n, no table is written and the cache mapping stays as it was.
C11_NothingMaterialized ==
    [][HeadExecutes => cache' = cache /\ tables' = tables]_vars

\* C11, amended: head(n) for a plan whose known row count is at most n hands over
\* to execute at once, having written no table and changed no cache entry, and
\* does not end in any other branch; execute compiles its one statement from the
\* plan the cache mapping gives; the cache mapping and the tables change during
\* the call only in a turn of the factoring loop, which runs only with
\* enable_multi_query_execution and writes a table only while the plan is at or
\* above QUERY_COMPLEXITY_LIMIT.
C11_ExecutesAsIs ==
    /\ [](HeadExecutes /\ call.materializations = 0 =>
            RowCount(GetOptimizedPlan(call.node, cache)) \in 0 .. call.n_rows)
    /\ [](HeadExecutes /\ pc = "simplify" => call.enable_multi_query_execution)
    /\ [](outcome.op = "head" /\ outcome.plan # NoPlan =>
            outcome.plan = GetOptimizedPlan(outcome.node, cache))
    /\ [][pc = "idle" /\ call'.op = "head" => cache' = cache /\ tables' = tables]_vars
    /\ [][pc = "idle" /\ pc' = "idle" /\ outcome'.op = "head" =>
            RowCount(GetOptimizedPlan(outcome'.node, cache)) \notin 0 .. outcome'.n_rows]_vars
    /\ [][HeadExecutes /\ (cache' # cache \/ tables' # tables) =>
            /\ pc = "simplify"
            /\ call.enable_multi_query_execution
            /\ PlanningComplexity(GetOptimizedPlan(call.node, cache))
                   >= QUERY_COMPLEXITY_LIMIT]_vars

\* head(5) on local data of 3 rows returned the rows of one query compiled from
\* the tree as it is, and nothing was written
C11_Witness ==
    /\ outcome.op = "head"
    /\ outcome.status = "ok"
    /\ outcome.node = Local
    /\ outcome.plan = Local
    /\ tables = {}
    /\ cache = EmptyCache

\* head returned or raised in its own step, without handing over to execute
HeadEnds == pc = "idle" /\ pc' = "idle" /\ outcome'.op = "head"

\* C12 as the claim states it: on a controller that is not strictly ordered,
\* head(n) for a plan without explicit ordering and without a known row count of
\* at most n returns what peek returns for the optimized plan: the result or the
\* failure of the one query compiled from that plan, with no table written and no
\* entry added.
C12_DelegatesToPeek ==
    [][HeadEnds /\ ~strictly_ordered =>
            /\ outcome'.status \in JobStatuses
            /\ outcome'.plan = GetOptimizedPlan(outcome'.node, cache)
            /\ cache' = cache
            /\ tables' = tables]_vars

\* C13 as the claim states it: head(n) that takes neither shortcut ends by
\* compiling and executing the head plan, once the plan supports a fast head or
\* the forced _cache_with_offsets has written its table.
C13_EndsWithHeadPlan ==
    [][/\ HeadEnds
       /\ strictly_ordered
       /\ CanFastHead(GetOptimizedPlan(outcome'.node, cache)) \/ tables' # tables
       => /\ outcome'.plan # NoPlan
          /\ outcome'.status \in JobStatuses]_vars

\* get_row_count has just returned or raised
RowCountReturned == outcome.op = "get_row_count"

FactoringRaises == pc = "simplify" /\ outcome'.op # "none"

\* C15 as the claim states it: a query submitted while factoring is in progress
\* never makes the call raise QueryComplexityError.
C15_NeverWhileFactoring ==
    [][FactoringRaises => outcome'.status # "QueryComplexityError"]_vars

\* C15, amended: _run_execute_query raises QueryComplexityError exactly for the
\* BadRequest of the engine whose message holds "Resources exceeded during query
\* execution" and hands every other failure on as it is, for every query it
\* submits: the final query of execute and the materialization query of a caching
\* call or of a turn of the factoring loop alike.  A materialization query that
\* fails in the factoring loop ends execute with that exception; no statement is
\* compiled for the plan, and no table and no entry is added in that turn.
C15_RaisedForEveryQuery ==
    /\ [](\A response \in Responses :
            /\ RunExecuteQuery(response) = "QueryComplexityError"
                   <=> response = "Resources exceeded"
            /\ response # "Resources exceeded" => RunExecuteQuery(response) = response)
    /\ [](outcome.op # "none" =>
            outcome.status \in {RunExecuteQuery(response) : response \in Responses}
                                   \cup {"create_temp_table failed", "ValueError"})
    /\ [](outcome.op = "execute" /\ outcome.plan # NoPlan =>
            outcome.plan = GetOptimizedPlan(outcome.node, cache))
    /\ [][FactoringRaises =>
            /\ outcome'.status \in CachingStatuses \ {"ok"}
            /\ outcome'.plan = NoPlan
            /\ pc' = "idle"
            /\ cache' = cache
            /\ tables' = tables]_vars

\* execute raised QueryComplexityError from the materialization query of a later
\* turn of the factoring loop; the entry of the earlier turn is still registered
C15_Witness ==
    /\ outcome.op = "execute"
    /\ outcome.status = "QueryComplexityError"
    /\ outcome.plan = NoPlan
    /\ outcome.materializations >= 1
    /\ outcome.materializations < MAX_SUBTREE_FACTORINGS
    /\ cache # EmptyCache

\* a call has just ended with an exception
CallRaises == outcome'.op # "none" /\ outcome'.status # "ok"

\* C16: the cache mapping changes only by one registration at a time, made in
\* the step in which the table of the subtree was written: the new entry is the
\* CachedTableNode over that table with the subtree as original_node, and every
\* other entry stays as it was (the entries of earlier turns of the same
\* factoring run included).  A call or a turn that ends with the exception of
\* create_temp_table or of the materialization query writes no table and leaves
\* the cache mapping as it was.  (An entry leaves the mapping only when a tree of
\* the session is dropped.)
C16_RegisteredAfterTheJob ==
    /\ [][cache' # cache /\ forest' = forest =>
            \E t \in tables' \ tables :
                /\ tables' = tables \cup {t}
                /\ t.of \in DOMAIN cache'
                /\ cache'[t.of].kind = "CachedTableNode"
                /\ cache'[t.of].original_node = t.of
                /\ cache'[t.of].table_id = t.table_id
                /\ cache'[t.of].physical_schema = t.schema
                /\ \A k \in DOMAIN cache \ {t.of} :
                      k \in DOMAIN cache' /\ cache'[k] = cache[k]
                /\ DOMAIN cache' = DOMAIN cache \cup {t.of}]_vars
    /\ [][CallRaises => cache' = cache /\ tables' = tables]_vars
    /\ [][tables' # tables => cache' # cache /\ outcome'.op \in {"none",
              "_cache_with_cluster_cols", "_cache_with_offsets"}]_vars

\* create_temp_table failed in a later turn of the factoring loop: execute raised
\* and the entry of the earlier turn is registered as that turn left it
C16_Witness ==
    /\ outcome.op = "execute"
    /\ outcome.status = "create_temp_table failed"
    /\ outcome.materializations >= 1
    /\ \E t \in tables :
          /\ t.of \in DOMAIN cache
          /\ t.of # outcome.node
          /\ cache[t.of].table_id = t.table_id

\* execute is in progress
Executing == call.op = "execute"

OffsetEntries ==
    {k \in DOMAIN cache : cache[k].ordering = TotalOrdering({OffsetColumn})}

\* C18: on a controller that is not strictly ordered _cache_with_offsets raises
\* ValueError and writes no table and changes no entry; no entry of such a
\* controller ever comes from the offsets strategy and no table of it is
\* clustered on the offsets column; _cache_with_session_awareness takes
\* _cache_with_cluster_cols there whatever session_aware_cache_plan returned, and
\* takes _cache_with_offsets only on a strictly ordered controller when no
\* cluster columns were returned.
C18_OffsetsOnlyWhenStrict ==
    /\ [][outcome'.op = "_cache_with_offsets" /\ ~strictly_ordered =>
            /\ outcome'.status = "ValueError"
            /\ outcome'.materializations = 0
            /\ cache' = cache
            /\ tables' = tables]_vars
    /\ [](~strictly_ordered =>
            /\ OffsetEntries = {}
            /\ \A t \in tables : OffsetColumn \notin Range(t.cluster_cols))
    /\ [](outcome.op = "_cache_with_session_awareness" /\ ~strictly_ordered =>
            /\ outcome.strategy = "_cache_with_cluster_cols"
            /\ outcome.status \in CachingStatuses)
    /\ [](outcome.op = "_cache_with_session_awareness"
              /\ outcome.strategy = "_cache_with_offsets" => strictly_ordered)
    /\ [][outcome'.op = "_cache_with_session_awareness"
              /\ outcome'.strategy = "_cache_with_offsets" =>
            \A t \in tables' \ tables : t.cluster_cols = <<OffsetColumn>>]_vars

\* on a controller that is not strictly ordered session-aware caching was given
\* no cluster columns and wrote its table by the cluster-column strategy
C18_Witness ==
    /\ ~strictly_ordered
    /\ outcome.op = "_cache_with_session_awareness"
    /\ outcome.status = "ok"
    /\ outcome.node \in DOMAIN cache
    /\ \E t \in tables :
          /\ t.of = outcome.node
          /\ t.cluster_cols = <<>>
          /\ cache[outcome.node].table_id = t.table_id

\* the step is the end of a call that went by the offsets strategy
ByOffsets ==
    \/ outcome'.op \in {"_cache_with_offsets", "head"}
    \/ /\ outcome'.op = "_cache_with_session_awareness"
       /\ outcome'.strategy = "_cache_with_offsets"

C20_AssertionHolds ==
    /\ [](outcome.op = "head" => outcome.status # "AssertionError")
    /\ [][HeadEnds /\ tables' # tables =>
            /\ strictly_ordered
            /\ ~CanFastHead(GetOptimizedPlan(outcome'.node, cache))
            /\ GetOptimizedPlan(outcome'.node, cache') = cache'[outcome'.node]
            /\ CanFastHead(GetOptimizedPlan(outcome'.node, cache'))]_vars
    /\ [](\A k \in OffsetEntries : CanFastHead(GetOptimizedPlan(k, cache)))

\* head forced the offsets for a tree one of whose inner subtrees was registered
\* before by the cluster-column strategy
C20_Witness ==
    /\ outcome.op = "head"
    /\ outcome.materializations = 1
    /\ outcome.plan = NoPlan
    /\ outcome.node \in OffsetEntries
    /\ \E k \in DOMAIN cache \ OffsetEntries :
          k # outcome.node /\ k \in Subtrees(outcome.node)


\* ------------------------------------------------------------------------
\* The entries of the cache mapping (specification SpecHead)
\* ------------------------------------------------------------------------

\* the trees the mapping is applied to: the trees of the session and their subtrees
Substituted == UNION {Subtrees(node) : node \in forest}

\* C21: whatever calls the executor has served, and wherever it is in a call,
\* every entry of _cached_executions maps a subtree to a CachedTableNode whose
\* original_node is that subtree, so the replacement has the schema and the
\* session of its key; no key is a CachedTableNode; and the plan
\* _get_optimized_plan gives for a tree of the session, or for a subtree of one,
\* has the schema of that tree.
C21_EntriesEmbedTheirKeys ==
    /\ \A key \in DOMAIN cache :
          /\ key.kind # "CachedTableNode"
          /\ cache[key].kind = "CachedTableNode"
          /\ cache[key].original_node = key
          /\ Schema(cache[key]) = Schema(key)
          /\ Session(cache[key]) = Session(key)
    /\ \A node \in Substituted :
          Schema(GetOptimizedPlan(node, cache)) = Schema(node)

\* two entries, one registered by each strategy, and a tree of the session, no
\* key itself, that the mapping rewrites below its root
C21_Witness ==
    /\ \E k1, k2 \in DOMAIN cache :
          /\ cache[k1].ordering = TotalOrdering({OffsetColumn})
          /\ cache[k2].ordering # TotalOrdering({OffsetColumn})
    /\ \E node \in forest \ DOMAIN cache : GetOptimizedPlan(node, cache) # node


\* ------------------------------------------------------------------------
\* to_sql, dry_run and export_gbq, and the calls that only read the cache
\* mapping (executor.py)
\* ------------------------------------------------------------------------

\* what a call that compiles one statement and writes no table returned or
\* raised; the statement stands for the plan it was compiled from
Compiled(op, node, plan, status) ==
    [op |-> op, node |-> node, plan |-> plan, status |-> status,
     materializations |-> 0]

\* the node to_sql compiles for array_value: the plan _get_optimized_plan gives,
\* or with enable_cache=False the tree as it is
ToSqlOf(array_value, enable_cache, cached_executions) ==
    IF enable_cache THEN GetOptimizedPlan(array_value, cached_executions)
    ELSE array_value

\* to_sql up to the compiler: with offset_column the offsets are promoted first
ToSqlNode(node, offset_column, enable_cache, cached_executions) ==
    ToSqlOf(IF offset_column THEN PromoteOffsetsNode(node, OffsetColumn) ELSE node,
            enable_cache, cached_executions)

\* to_sql(array_value, offset_column, col_id_overrides, ordered, enable_cache);
\* ordered and col_id_overrides go to the compiler, which compiles the same node
\* whatever they are
ToSql ==
    /\ pc = "idle"
    /\ \E node \in forest, offset_column \in BOOLEAN, enable_cache \in BOOLEAN :
          outcome' = Compiled("to_sql", node,
                              ToSqlNode(node, offset_column, enable_cache, cache), "ok")
    /\ UNCHANGED <<strictly_ordered, forest, cache, tables, pc, call>>
    /\ UNCHANGED nodeVars

\* dry_run(array_value, ordered): the statement of to_sql goes to bqclient.query
\* with dry_run=True, not through _run_execute_query, so what the engine answers
\* reaches the caller as it is
DryRun ==
    /\ pc = "idle"
    /\ \E node \in forest, response \in Responses :
          outcome' = Compiled("dry_run", node, ToSqlNode(node, FALSE, TRUE, cache),
                              response)
    /\ UNCHANGED <<strictly_ordered, forest, cache, tables, pc, call>>
    /\ UNCHANGED nodeVars

\* export_gbq(array_value, col_id_overrides, destination, if_exists, cluster_cols):
\* the statement of to_sql is run by _run_execute_query; the destination the
\* caller gave, the write disposition and the clustering go into the job
\* configuration, and the engine answers for them
ExportGbq ==
    /\ pc = "idle"
    /\ \E node \in forest, status \in JobStatuses :
          outcome' = Compiled("export_gbq", node, ToSqlNode(node, FALSE, TRUE, cache),
                              status)
    /\ UNCHANGED <<strictly_ordered, forest, cache, tables, pc, call>>
    /\ UNCHANGED nodeVars

NextCalls ==
    \/ NewFrame
    \/ ReleasePlan
    \/ ToSql
    \/ DryRun
    \/ ExportGbq
    \/ Peek
    \/ GetRowCount
    \/ Execute
    \/ SimplifyStep
    \/ Compile
    \/ CacheTree

SpecCalls == Init /\ [][NextCalls]_vars


\* ------------------------------------------------------------------------
\* Properties of the calls that only read the cache mapping (specification
\* SpecCalls)
\* ------------------------------------------------------------------------

\* the calls that compile one statement from the cache mapping as it is
ReadOnlyOps == {"to_sql", "dry_run", "peek", "export_gbq", "get_row_count"}

\* execute is called, or goes on, with enable_multi_query_execution off
ExecutesInOneQuery ==
    \/ call.op = "execute" /\ ~call.enable_multi_query_execution
    \/ call'.op = "execute" /\ ~call'.enable_multi_query_execution

\* C22: to_sql, dry_run, peek, export_gbq and get_row_count, whatever they return
\* or raise, and every step of an execute with enable_multi_query_execution off,
\* leave _cached_executions and the tables as they were; a step that changes
\* _cached_executions is a materialization: it writes exactly one table and
\* registers the CachedTableNode over that table for the tree the table was
\* written for, all other entries staying as they were.
C22_OnlyMaterializationsWrite ==
    /\ [][outcome'.op \in ReadOnlyOps => cache' = cache /\ tables' = tables]_vars
    /\ [][ExecutesInOneQuery => cache' = cache /\ tables' = tables]_vars
    /\ [][cache' # cache =>
            /\ Cardinality(tables' \ tables) = 1
            /\ tables \subseteq tables'
            /\ \E t \in tables' \ tables :
                  /\ cache' = Register(cache, t.of, cache'[t.of])
                  /\ cache'[t.of].table_id = t.table_id]_vars

\* export_gbq failed on a statement compiled from a plan the cache mapping had
\* rewritten, and every table written before still has its entry
C22_Witness ==
    /\ outcome.op = "export_gbq"
    /\ outcome.status = "BadRequest"
    /\ outcome.plan # outcome.node
    /\ DOMAIN cache # {}
    /\ \A t \in tables : t.of \in DOMAIN cache

====
